---------------------------- MODULE Spec2Model ----------------------------
(***************************************************************************)
(* The voting pipeline: Intake (vote/app.py) -> Redis list "votes" ->      *)
(* Worker (worker/Program.cs) -> Postgres table votes -> Aggregator        *)
(* (result/server.js).                                                     *)
(***************************************************************************)
EXTENDS Integers, Sequences, FiniteSets, TLC

\* ------------------------------------------------------------------ bounds
\* Number of entries ever pushed on the queue in one behaviour.
MaxEnq == 3
\* Cap on the modelled value of DateTime.UtcNow - lastTokenRefresh.
MaxElapsed == 3
\* Number of events one viewer's socket receives in one behaviour.
MaxInbox == 3
\* Queries of the Aggregator awaiting their callback at once (never reached)
MaxInFlight == 2

\* ------------------------------------------------------------- value sets
Workers == {"w1", "w2"}
Voters == {"v1", "v2"}
\* The voters whose rows the Aggregator's store may hold.
StoreVoters == Voters \cup {"v3"}
\* Form values of the two options rendered by vote/app.py
Choices == {"a", "b"}
\* The clients whose cookie and responses are followed.
Browsers == {"b1"}
\* Two of the gunicorn worker processes serving the intake (--workers 4),
\* each with its own copy of app.py's globals.
IntakeProcs == {"g1", "g2"}
\* The browsers that open a socket to the Aggregator.
Viewers == {"s1", "s2"}
\* A form value that is not one of the two options (nothing validates it).
OtherChoices == {"c"}
AllChoices == Choices \cup OtherChoices

\* Program.cs line 155: id VARCHAR(255); line 156: vote VARCHAR(255).
VarcharLength == 255
FitsVarchar(str) == Len(str) <= VarcharLength

RECURSIVE Repeat(_, _)
Repeat(str, n) == IF n = 0 THEN "" ELSE str \o Repeat(str, n - 1)
\* A voter_id cookie one character longer than the id column takes.
LongVoter == Repeat("v", VarcharLength + 1)
\* The voter ids a worker may hold.
WorkerVoters == Voters \cup {LongVoter}

\* Program.cs line 65: TimeSpan.FromMinutes(10); one model tick is 5 minutes.
tokenRefreshInterval == 2

\* Program.cs line 61: var definition = new { vote = "", voter_id = "" }
definition == [vote |-> "", voter_id |-> ""]
\* What a payload that is not a JSON object stands for in the ghost log.
Garbage == [vote |-> "?", voter_id |-> "?"]

VARIABLES
  queue,        \* the Redis list "votes": a sequence of payloads
  votes,        \* the table votes: a bag of rows [id, vote]
  tableExists,  \* CREATE TABLE IF NOT EXISTS has run
  dbUp,         \* the relational endpoint accepts connections
  redisUp,      \* the queue endpoint accepts connections
  useIamAuth,   \* DATABASE_USE_IAM_AUTH == "true"
  pc,           \* each worker's position in Main
  ret,          \* which call of OpenDbConnection / OpenRedisConnection is running
  vote,         \* each worker's decoded record (Main's local vote)
  pgsql,        \* each worker's store connection: "none", "open", "stale" or "closed"
  kaCurrent,    \* keepAliveCommand was created from the worker's current pgsql
  elapsed,      \* DateTime.UtcNow - lastTokenRefresh, in ticks, capped
  waited,       \* "Waiting for db" was printed by the running OpenDbConnection
  exitCause,    \* the call whose exception reached Main's catch ("" while running)
  scores,       \* the Aggregator's last broadcast "scores" payload
  queried,      \* history: the table as the last successful query saw it
  enq,          \* history: every record pushed, in push order, before encoding
  nPop,         \* history: number of successful pops
  cur,          \* history: push index of the record each worker holds
  written,      \* history: push indices whose UpdateVote returned normally
  arrivedDown,  \* history: push indices pushed while a worker was reopening a down store link
  droppedAt,    \* history: push indices popped with the store connection not Open
  lastApplied,  \* history: for each voter, the push index of the write applied last (0: none)
  ERROR_SIM_ENABLED, \* vote/app.py's global of that name, one in each intake process
  cookie,       \* each browser's voter_id cookie ("" when it has none)
  resp,         \* the last response of hello to a browser, with its request
  prevError,    \* history: the error field of the response before resp
  client,       \* the Aggregator's pg client: "none", "open" or "broken"
  aggPc,        \* the Aggregator's position: "off", "retry", "query", "timer", "gave_up"
  attempts,     \* failed runs of async.retry's task so far
  viewer,       \* each viewer's socket: "new", "connected" or "gone"
  received,     \* each viewer's socket: the events received, in order
  lastErr,      \* history: the last query callback got an err
  apiResp,      \* the last response of /api/error-sim or /health, with its request
  toggledFrom,  \* history: its ERROR_SIM_ENABLED as the last toggle_error_sim found it
  checked,      \* history: the tests each worker's current iteration has evaluated
  inFlight,     \* the Aggregator's queries sent whose callback has not run
  snapped       \* history: written, as it was at the last successful query

vars == <<queue, votes, tableExists, dbUp, redisUp, useIamAuth, pc, ret, vote,
          pgsql, kaCurrent, elapsed, waited, exitCause, scores, queried, enq,
          nPop, cur, written, arrivedDown, droppedAt, lastApplied,
          ERROR_SIM_ENABLED, cookie, resp, prevError, client, aggPc, attempts,
          viewer, received, lastErr, apiResp, toggledFrom, checked, inFlight,
          snapped>>

envVars == <<dbUp, redisUp, useIamAuth>>
histVars == <<enq, nPop, cur, written, arrivedDown, droppedAt, lastApplied, checked>>
intakeVars == <<ERROR_SIM_ENABLED, cookie, resp, prevError, apiResp, toggledFrom>>
aggVars == <<scores, queried, client, aggPc, attempts, viewer, received, lastErr,
            inFlight, snapped>>

\* ----------------------------------------------------------- wire format
\* vote/app.py: json.dumps({'voter_id': voter_id, 'vote': vote}); a JSON
\* object is a sequence of <<key, value>> pairs.
JsonDumps(voter_id, v) ==
  [object |-> TRUE, pairs |-> << <<"voter_id", voter_id>>, <<"vote", v>> >>]

\* A payload that is not a JSON object.
Malformed == [object |-> FALSE, pairs |-> <<>>]

\* The value of property key in a JSON object, "" (the definition's default
\* stands for null) when the property is absent.
JsonField(json, key) ==
  LET hits == {i \in 1..Len(json.pairs) : json.pairs[i][1] = key}
  IN  IF hits = {} THEN "" ELSE json.pairs[CHOOSE i \in hits : \A j \in hits : j <= i][2]

\* JsonConvert.DeserializeAnonymousType(json, definition) throws on a
\* payload that is not a JSON object.
DeserializeThrows(json) == ~json.object

DeserializeAnonymousType(json) ==
  [vote |-> JsonField(json, "vote"), voter_id |-> JsonField(json, "voter_id")]

\* ------------------------------------------------------------- the table
RowSpace == [id : StoreVoters, vote : AllChoices]
EmptyTable == [r \in RowSpace |-> 0]

RECURSIVE SumRows(_, _)
SumRows(t, S) ==
  IF S = {} THEN 0
  ELSE LET r == CHOOSE x \in S : TRUE IN t[r] + SumRows(t, S \ {r})

RowsOf(t, id) == {r \in RowSpace : r.id = id /\ t[r] > 0}
CountOf(t, id) == SumRows(t, {r \in RowSpace : r.id = id})
RowCount(t) == SumRows(t, RowSpace)

\* id VARCHAR(255) NOT NULL UNIQUE: the INSERT raises a DbException when a
\* row with this id exists.
\* (variant: the table created without UNIQUE)
InsertViolatesUnique_NoConstraint(t, id) == FALSE
InsertViolatesUnique(t, id) == CountOf(t, id) > 0

\* INSERT INTO votes (id, vote) VALUES (@id, @vote)
\* The INSERT raises a DbException: the unique violation, or "value too long
\* for type character varying(255)".
InsertRaises(t, id, v) ==
  InsertViolatesUnique(t, id) \/ ~FitsVarchar(id) \/ ~FitsVarchar(v)
\* The UPDATE raises a DbException: only its SET value is stored.
UpdateRaises(v) == ~FitsVarchar(v)

\* INSERT INTO votes (id, vote) VALUES (@id, @vote)
\* (variant: the INSERT stores a fixed vote, not the parameter)
InsertRow_Fixed(t, id, v) == [t EXCEPT ![[id |-> id, vote |-> "a"]] = @ + 1]
InsertRow(t, id, v) == [t EXCEPT ![[id |-> id, vote |-> v]] = @ + 1]

\* UPDATE votes SET vote = @vote WHERE id = @id
\* (variants: a WHERE that matches no row; no WHERE at all)
UpdateRow_NoMatch(t, id, v) == t
\* (variant: the voter's row is removed instead of rewritten)
UpdateRow_Delete(t, id, v) == [r \in RowSpace |-> IF r.id = id THEN 0 ELSE t[r]]
UpdateRow_NoWhere(t, id, v) ==
  [r \in RowSpace |-> IF r.vote = v THEN CountOf(t, r.id) ELSE 0]
UpdateRow(t, id, v) ==
  [r \in RowSpace |->
     IF r.id # id THEN t[r]
     ELSE IF r.vote = v THEN CountOf(t, id) ELSE 0]

\* UpdateVote on a healthy connection, as one function of the table.
UpdateVote(t, id, v) ==
  IF InsertViolatesUnique(t, id) THEN UpdateRow(t, id, v) ELSE InsertRow(t, id, v)


\* ------------------------------------------------------------ connections
\* NpgsqlConnection.State of a connection: a connection the server side has
\* dropped keeps reporting Open until a command on it fails ("stale").
\* (variant: the State test never sees a closed connection)
StateIsOpen_Always(c) == TRUE
StateIsOpen(c) == c \in {"open", "stale"}
\* A command on the connection completes.
Usable(c) == c = "open"

Running(w) == pc[w] \notin {"off", "exited"}

\* Main's catch (Exception ex): print and return 1.
Exit(w, cause) ==
  /\ pc' = [pc EXCEPT ![w] = "exited"]
  /\ exitCause' = [exitCause EXCEPT ![w] = cause]
  /\ vote' = [vote EXCEPT ![w] = definition]
  /\ cur' = [cur EXCEPT ![w] = 0]

\* ------------------------------------------------------------------ Init
\* No request of a browser has been answered yet.
NoResponse ==
  [pid |-> "", browser |-> "", method |-> "", form |-> "", status |-> 0,
   error |-> "", set_cookie |-> ""]

\* No request of /api/error-sim or /health has been answered yet.
NoApiResponse ==
  [pid |-> "", route |-> "", method |-> "", status |-> 0, json |-> <<>>]

\* Nothing has been emitted on "scores" yet.
NoScores == [object |-> FALSE, pairs |-> <<>>]

InitCommon ==
  /\ queue = <<>>
  /\ votes = EmptyTable
  /\ tableExists \in BOOLEAN
  /\ dbUp \in BOOLEAN
  /\ redisUp \in BOOLEAN
  /\ useIamAuth \in BOOLEAN
  /\ ret = [w \in Workers |-> "init"]
  /\ vote = [w \in Workers |-> definition]
  /\ pgsql = [w \in Workers |-> "none"]
  /\ kaCurrent = [w \in Workers |-> FALSE]
  /\ elapsed = [w \in Workers |-> 0]
  /\ waited = [w \in Workers |-> FALSE]
  /\ exitCause = [w \in Workers |-> ""]
  /\ scores = NoScores
  /\ queried = EmptyTable
  /\ enq = <<>>
  /\ nPop = 0
  /\ cur = [w \in Workers |-> 0]
  /\ written = {}
  /\ arrivedDown = {}
  /\ droppedAt = {}
  /\ lastApplied = [id \in WorkerVoters |-> 0]
  /\ ERROR_SIM_ENABLED = [p \in IntakeProcs |-> FALSE]
  /\ cookie = [b \in Browsers |-> ""]
  /\ resp = NoResponse
  /\ prevError = ""
  /\ apiResp = NoApiResponse
  /\ toggledFrom = FALSE
  /\ checked = [w \in Workers |-> {}]
  /\ snapped = {}
  /\ client \in {"none", "open"}
  /\ attempts = 0
  /\ viewer = [v \in Viewers |-> "new"]
  /\ received = [v \in Viewers |-> <<>>]
  /\ lastErr = FALSE

\* One worker process at Program.cs line 53, static password, queue reachable.
Init ==
  /\ InitCommon
  /\ aggPc = "off"
  /\ inFlight = 0
  /\ client = "none"
  /\ redisUp
  /\ ~useIamAuth
  /\ pc = [w \in Workers |-> IF w = "w1" THEN "db_connect" ELSE "off"]

\* The same with DATABASE_USE_IAM_AUTH=true.
InitToken ==
  /\ InitCommon
  /\ aggPc = "off"
  /\ inFlight = 0
  /\ client = "none"
  /\ redisUp
  /\ useIamAuth
  /\ pc = [w \in Workers |-> IF w = "w1" THEN "db_connect" ELSE "off"]

\* Two worker processes draining the same list (horizontal scaling).
InitMulti ==
  /\ InitCommon
  /\ aggPc = "off"
  /\ inFlight = 0
  /\ client = "none"
  /\ dbUp
  /\ redisUp
  /\ ~useIamAuth
  /\ pc = [w \in Workers |-> "db_connect"]

\* ------------------------------------------------------------ environment
\* The relational endpoint goes away: every established connection is
\* dropped, and the driver either has noticed (State is no longer Open) or
\* has not (the next command fails).
DbDown ==
  /\ dbUp
  /\ dbUp' = FALSE
  /\ \E f \in [{w \in Workers : pgsql[w] = "open"} -> {"stale", "closed"}] :
       pgsql' = [w \in Workers |-> IF pgsql[w] = "open" THEN f[w] ELSE pgsql[w]]
  \* the Aggregator's one client is never replaced (getVotes(client))
  /\ client' = IF client = "open" THEN "broken" ELSE client
  /\ UNCHANGED <<queue, votes, tableExists, redisUp, useIamAuth, pc, ret, vote,
                 kaCurrent, elapsed, waited, exitCause, intakeVars, scores,
                 queried, aggPc, attempts, viewer, received, lastErr, inFlight,
                 snapped, histVars>>

DbHeal ==
  /\ ~dbUp
  /\ dbUp' = TRUE
  /\ UNCHANGED <<queue, votes, tableExists, redisUp, useIamAuth, pc, ret, vote,
                 pgsql, kaCurrent, elapsed, waited, exitCause, intakeVars, aggVars, histVars>>

\* The queue endpoint goes away and comes back.
RedisDown ==
  /\ redisUp
  /\ redisUp' = FALSE
  /\ UNCHANGED <<queue, votes, tableExists, dbUp, useIamAuth, pc, ret, vote,
                 pgsql, kaCurrent, elapsed, waited, exitCause, intakeVars, aggVars, histVars>>

RedisHeal ==
  /\ ~redisUp
  /\ redisUp' = TRUE
  /\ UNCHANGED <<queue, votes, tableExists, dbUp, useIamAuth, pc, ret, vote,
                 pgsql, kaCurrent, elapsed, waited, exitCause, intakeVars, aggVars, histVars>>

\* DateTime.UtcNow advances by one tick.
Tick ==
  /\ \E w \in Workers : Running(w) /\ elapsed[w] < MaxElapsed
  /\ elapsed' = [w \in Workers |->
                   IF Running(w) /\ elapsed[w] < MaxElapsed
                   THEN elapsed[w] + 1 ELSE elapsed[w]]
  /\ UNCHANGED <<queue, votes, tableExists, envVars, pc, ret, vote, pgsql,
                 kaCurrent, waited, exitCause, intakeVars, aggVars, histVars>>

\* ----------------------------------------------------------------- Intake
\* Some worker found its store connection down and is reopening it.
StoreLinkDown ==
  \E w \in Workers : pc[w] \in {"db_connect", "db_create"} /\ ret[w] = "reconnect"

\* redis.rpush('votes', data): append at the tail.
\* (variant: lpush, a push at the head)
RPush_Left(q, data) == <<data>> \o q
\* (variant: a push that skips a payload the list already holds)
RPush_Unique(q, data) ==
  IF \E k \in 1..Len(q) : q[k] = data THEN q ELSE Append(q, data)
RPush(q, data) == Append(q, data)
\* ListLeftPop: remove from the head.
\* (variant: the value a right pop would return)
LPopValue_Right(q) == q[Len(q)]
LPopValue(q) == Head(q)
\* (variant: a read of the head that leaves it in the list)
LPopRest_Keep(q) == q
LPopRest(q) == Tail(q)

\* vote/app.py hello(), POST with cookie voter_id and form field vote from
\* a client other than the Browsers, the response not being followed.
Hello(voter_id, v) ==
  /\ Len(enq) < MaxEnq
  /\ \E p \in IntakeProcs : ~ERROR_SIM_ENABLED[p]
  /\ redisUp
  /\ queue' = RPush(queue, JsonDumps(voter_id, v))
  /\ enq' = Append(enq, [vote |-> v, voter_id |-> voter_id])
  /\ arrivedDown' = IF StoreLinkDown THEN arrivedDown \cup {Len(enq) + 1} ELSE arrivedDown
  /\ UNCHANGED <<votes, tableExists, envVars, pc, ret, vote, pgsql, kaCurrent,
                 elapsed, waited, exitCause, intakeVars, aggVars, nPop, cur, written, droppedAt,
                 lastApplied,
                 checked>>

\* random.getrandbits(64): the values drawn here; hex() of the first has one
\* digit.
RandBits == {7, 431}
Methods == {"GET", "POST"}
\* The request's form has no field vote.
NoField == "<absent>"
Forms == AllChoices \cup {NoField}
\* The response carries no Set-Cookie header.
NoCookie == "<none>"

HexDigit ==
  <<"0", "1", "2", "3", "4", "5", "6", "7", "8", "9", "a", "b", "c", "d", "e", "f">>

\* Python's hex(n): "0x" and the digits of n, as a sequence of characters.
RECURSIVE hex(_)
hex(n) ==
  IF n < 16 THEN <<"0", "x", HexDigit[n + 1]>>
  ELSE Append(hex(n \div 16), HexDigit[(n % 16) + 1])

\* The slice [2:-1] of a sequence of characters.
Slice2ToLast(chars) == SubSeq(chars, 3, Len(chars) - 1)

RECURSIVE Join(_)
Join(chars) == IF chars = <<>> THEN "" ELSE Head(chars) \o Join(Tail(chars))

\* hex(random.getrandbits(64))[2:-1]
MintVoterId(bits) == Join(Slice2ToLast(hex(bits)))

\* Lines 318-320: the cookie's value, or a minted one when the request has
\* no cookie or an empty one.
\* (variant: a new identity for every request)
VoterId_AlwaysMint(sent, bits) == MintVoterId(bits)
VoterId(sent, bits) == IF sent = "" THEN MintVoterId(bits) ELSE sent

\* redis.rpush raises (ConnectionError, TimeoutError) when the queue endpoint
\* cannot be reached; get_redis itself opens no connection.
\* (variant: a push that never raises)
RPushRaises_Never(up) == FALSE
RPushRaises(up) == ~up

\* Lines 329-331: the POST branch raises while the process's simulation is on.
SimulatedError(enabled) == enabled

\* hello() in process p for a request of browser b: method, the form's vote field (or
\* NoField) and the random bits drawn if an identity is minted. An exception
\* leaves the handler before make_response: status 500 (400 for the
\* BadRequestKeyError of request.form['vote']) and no Set-Cookie.
hello(p, b, method, form, bits) ==
  LET voter_id == VoterId(cookie[b], bits)
      error == IF method = "GET" THEN ""
               ELSE IF SimulatedError(ERROR_SIM_ENABLED[p]) THEN "simulated"
               ELSE IF form = NoField THEN "bad_request"
               ELSE IF RPushRaises(redisUp) THEN "redis"
               ELSE ""
      pushes == method = "POST" /\ error = ""
  IN  /\ pushes => Len(enq) < MaxEnq
      /\ IF pushes
         THEN /\ queue' = RPush(queue, JsonDumps(voter_id, form))
              /\ enq' = Append(enq, [vote |-> form, voter_id |-> voter_id])
              /\ arrivedDown' = IF StoreLinkDown THEN arrivedDown \cup {Len(enq) + 1}
                                ELSE arrivedDown
         ELSE UNCHANGED <<queue, enq, arrivedDown>>
      /\ resp' = [pid |-> p, browser |-> b, method |-> method, form |-> form,
                  status |-> CASE error = "" -> 200
                               [] error = "bad_request" -> 400
                               [] OTHER -> 500,
                  error |-> error,
                  set_cookie |-> IF error = "" THEN voter_id ELSE NoCookie]
      /\ cookie' = IF error = "" THEN [cookie EXCEPT ![b] = voter_id] ELSE cookie
      /\ prevError' = resp.error
      /\ UNCHANGED <<votes, tableExists, envVars, pc, ret, vote, pgsql, kaCurrent,
                     elapsed, waited, exitCause, aggVars, nPop, cur, written,
                     droppedAt, lastApplied, ERROR_SIM_ENABLED, apiResp,
                     toggledFrom,
                 checked>>

\* jsonify(...) of a dict in process p, as its key/value pairs; status 200.
Jsonify(p, route, method, pairs) ==
  [pid |-> p, route |-> route, method |-> method, status |-> 200, json |-> pairs]

\* not ERROR_SIM_ENABLED
Toggle(enabled) == ~enabled

\* GET /api/error-sim served by process p:
\* jsonify({'enabled': ERROR_SIM_ENABLED}).
get_error_sim_status(p) ==
  /\ apiResp' = Jsonify(p, "/api/error-sim", "GET",
                        <<<<"enabled", ERROR_SIM_ENABLED[p]>>>>)
  /\ UNCHANGED <<queue, votes, tableExists, envVars, pc, ret, vote, pgsql,
                 kaCurrent, elapsed, waited, exitCause, aggVars, histVars,
                 ERROR_SIM_ENABLED, cookie, resp, prevError, toggledFrom>>

\* POST /api/error-sim served by process p: its ERROR_SIM_ENABLED = not
\* ERROR_SIM_ENABLED, then jsonify({'enabled': ERROR_SIM_ENABLED}) of the new
\* value. The global of the other processes is not touched.
toggle_error_sim(p) ==
  /\ ERROR_SIM_ENABLED' =
       [ERROR_SIM_ENABLED EXCEPT ![p] = Toggle(ERROR_SIM_ENABLED[p])]
  /\ apiResp' = Jsonify(p, "/api/error-sim", "POST",
                        <<<<"enabled", ERROR_SIM_ENABLED'[p]>>>>)
  /\ toggledFrom' = ERROR_SIM_ENABLED[p]
  /\ UNCHANGED <<queue, votes, tableExists, envVars, pc, ret, vote, pgsql,
                 kaCurrent, elapsed, waited, exitCause, aggVars, histVars,
                 cookie, resp, prevError>>

\* socket.gethostname()
hostname == "vote-host"

\* The status of /health's response: the handler reads no state.
\* (variant: the health check fails while the simulation is on)
HealthStatus_Simulated(enabled) == IF enabled THEN 500 ELSE 200
HealthStatus(enabled) == 200

\* GET /health served by process p:
\* jsonify({'status': 'healthy', 'hostname': hostname}).
health(p) ==
  /\ apiResp' = [Jsonify(p, "/health", "GET",
                         <<<<"status", IF HealthStatus(ERROR_SIM_ENABLED[p]) = 200
                                      THEN "healthy" ELSE "unhealthy">>,
                           <<"hostname", hostname>>>>)
                   EXCEPT !.status = HealthStatus(ERROR_SIM_ENABLED[p])]
  /\ UNCHANGED <<queue, votes, tableExists, envVars, pc, ret, vote, pgsql,
                 kaCurrent, elapsed, waited, exitCause, aggVars, histVars,
                 ERROR_SIM_ENABLED, cookie, resp, prevError, toggledFrom>>

\* Some other client of the list pushes a payload that is not a JSON object.
ForeignPush ==
  /\ Len(enq) < MaxEnq
  /\ redisUp
  /\ queue' = RPush(queue, Malformed)
  /\ enq' = Append(enq, Garbage)
  /\ arrivedDown' = IF StoreLinkDown THEN arrivedDown \cup {Len(enq) + 1} ELSE arrivedDown
  /\ UNCHANGED <<votes, tableExists, envVars, pc, ret, vote, pgsql, kaCurrent,
                 elapsed, waited, exitCause, intakeVars, aggVars, nPop, cur, written, droppedAt,
                 lastApplied,
                 checked>>

\* ----------------------------------------------------------------- Worker
\* OpenDbConnection, one pass of its while (true): new NpgsqlConnection and
\* Open(); a SocketException or DbException prints "Waiting for db", sleeps
\* a second and loops.
\* What connection.Open() throws while the endpoint does not accept the
\* connection: a transport-level or a protocol-level error.
OpenFailures == {"SocketException", "DbException"}
\* Lines 139-148: the two catch clauses of the loop, each followed by
\* Thread.Sleep(1000).
\* (variant: only the transport-level error is caught)
OpenRetries_SocketOnly(ex) == ex = "SocketException"
OpenRetries(ex) == ex \in {"SocketException", "DbException"}

OpenDbConnection_Try(w) ==
  /\ pc[w] = "db_connect"
  /\ IF dbUp
     THEN /\ pgsql' = [pgsql EXCEPT ![w] = "open"]
          /\ pc' = [pc EXCEPT ![w] = "db_create"]
          /\ UNCHANGED <<waited, exitCause, vote, cur>>
     ELSE \E ex \in OpenFailures :
            IF OpenRetries(ex)
            THEN /\ ~waited[w]
                 /\ waited' = [waited EXCEPT ![w] = TRUE]
                 /\ UNCHANGED <<pgsql, pc, exitCause, vote, cur>>
            ELSE /\ Exit(w, "open")
                 /\ UNCHANGED <<pgsql, waited>>
  /\ UNCHANGED <<queue, votes, tableExists, envVars, ret, kaCurrent,
                 elapsed, intakeVars, aggVars, enq, nPop, written, arrivedDown,
                 droppedAt, lastApplied,
                 checked>>

\* Lines 104-112: UpdateVote is the else branch of "Reconnect DB if down", so
\* after line 107 control falls to the end of the loop body.
\* (variant: the reconnect falling through to UpdateVote)
AfterReconnect_Write == "insert"
AfterReconnect == "loop"

\* OpenDbConnection after the loop: CREATE TABLE IF NOT EXISTS on the new
\* connection (not inside any try of OpenDbConnection), then the return to
\* the caller: line 53 (init), lines 97-104 (refresh) or line 107 (reconnect).
OpenDbConnection_Create(w) ==
  /\ pc[w] = "db_create"
  /\ IF Usable(pgsql[w])
     THEN /\ tableExists' = TRUE
          /\ waited' = [waited EXCEPT ![w] = FALSE]
          /\ CASE ret[w] = "init" ->
                    /\ pc' = [pc EXCEPT ![w] = "redis_connect"]
                    /\ UNCHANGED <<kaCurrent, elapsed, vote, cur>>
               [] ret[w] = "refresh" ->
                    \* keepAliveCommand = pgsql.CreateCommand();
                    \* lastTokenRefresh = DateTime.UtcNow; then line 104
                    /\ kaCurrent' = [kaCurrent EXCEPT ![w] = TRUE]
                    /\ elapsed' = [elapsed EXCEPT ![w] = 0]
                    /\ pc' = [pc EXCEPT ![w] = "insert"]
                    /\ UNCHANGED <<vote, cur>>
               [] ret[w] = "reconnect" ->
                    \* pgsql = OpenDbConnection(...): keepAliveCommand is
                    \* not rebuilt, the record is not written
                    /\ kaCurrent' = [kaCurrent EXCEPT ![w] = FALSE]
                    /\ pc' = [pc EXCEPT ![w] = AfterReconnect]
                    /\ IF AfterReconnect = "loop"
                       THEN /\ vote' = [vote EXCEPT ![w] = definition]
                            /\ cur' = [cur EXCEPT ![w] = 0]
                       ELSE UNCHANGED <<vote, cur>>
                    /\ UNCHANGED elapsed
          /\ UNCHANGED exitCause
     ELSE /\ Exit(w, "create_table")
          /\ UNCHANGED <<tableExists, waited, kaCurrent, elapsed>>
  /\ UNCHANGED <<queue, votes, envVars, ret, pgsql, intakeVars, aggVars, enq, nPop, written,
                 arrivedDown, droppedAt, lastApplied,
                 checked>>

\* OpenRedisConnection, one pass of its while (true): Connect, or
\* "Waiting for redis" and a second's sleep. Called from line 54 (init: then
\* lines 55-65 build keepAliveCommand and set lastTokenRefresh) or line 75.
OpenRedisConnection(w) ==
  /\ pc[w] = "redis_connect"
  /\ redisUp
  /\ IF ret[w] = "init"
     THEN /\ kaCurrent' = [kaCurrent EXCEPT ![w] = TRUE]
          /\ elapsed' = [elapsed EXCEPT ![w] = 0]
          /\ ret' = [ret EXCEPT ![w] = "loop"]
          /\ pc' = [pc EXCEPT ![w] = "loop"]
     ELSE /\ pc' = [pc EXCEPT ![w] = "pop"]
          /\ UNCHANGED <<kaCurrent, elapsed, ret>>
  /\ UNCHANGED <<queue, votes, tableExists, envVars, vote, pgsql, waited,
                 exitCause, intakeVars, aggVars, histVars>>

\* Lines 69-77: Thread.Sleep(100), then "Reconnect redis if down".
LoopTop(w) ==
  /\ pc[w] = "loop"
  /\ pc' = [pc EXCEPT ![w] = IF redisUp THEN "pop" ELSE "redis_connect"]
  /\ ret' = [ret EXCEPT ![w] = "loop"]
  /\ checked' = [checked EXCEPT ![w] = {"queue"}]
  /\ UNCHANGED <<queue, votes, tableExists, envVars, vote, pgsql, kaCurrent,
                 elapsed, waited, exitCause, intakeVars, aggVars, enq, nPop, cur,
                 written, arrivedDown, droppedAt, lastApplied>>

\* Line 86: useIamAuth && DateTime.UtcNow - lastTokenRefresh > tokenRefreshInterval
\* (variant: the age of the credential alone decides)
RefreshDue_AnyMode(iam, age) == age > tokenRefreshInterval
RefreshDue(iam, age) == iam /\ age > tokenRefreshInterval

\* Lines 79-108: ListLeftPopAsync("votes").Result; on a record: decode, the
\* token-refresh test, pgsql.Close() when it fires, else the State test.
Pop(w) ==
  /\ pc[w] = "pop"
  /\ IF ~redisUp
     THEN /\ Exit(w, "pop")
          /\ UNCHANGED <<queue, pgsql, ret, waited, nPop, droppedAt, checked>>
     ELSE IF queue = <<>>
     THEN /\ pc' = [pc EXCEPT ![w] = "keepalive"]
          /\ UNCHANGED <<queue, pgsql, ret, waited, nPop, droppedAt, vote, cur,
                         exitCause, checked>>
     ELSE /\ queue' = LPopRest(queue)
          /\ nPop' = nPop + 1
          /\ IF DeserializeThrows(LPopValue(queue))
             THEN /\ Exit(w, "decode")
                  /\ UNCHANGED <<pgsql, ret, waited, droppedAt, checked>>
             ELSE /\ vote' = [vote EXCEPT ![w] = DeserializeAnonymousType(LPopValue(queue))]
                  /\ cur' = [cur EXCEPT ![w] = nPop + 1]
                  /\ checked' = [checked EXCEPT ![w] = checked[w] \cup {"credential"}]
                  /\ UNCHANGED exitCause
                  /\ IF RefreshDue(useIamAuth, elapsed[w])
                     THEN /\ pgsql' = [pgsql EXCEPT ![w] = "closed"]
                          /\ ret' = [ret EXCEPT ![w] = "refresh"]
                          /\ waited' = [waited EXCEPT ![w] = FALSE]
                          /\ pc' = [pc EXCEPT ![w] = "db_connect"]
                          /\ UNCHANGED droppedAt
                     ELSE IF ~StateIsOpen(pgsql[w])
                     THEN /\ ret' = [ret EXCEPT ![w] = "reconnect"]
                          /\ waited' = [waited EXCEPT ![w] = FALSE]
                          /\ pc' = [pc EXCEPT ![w] = "db_connect"]
                          /\ droppedAt' = droppedAt \cup {nPop + 1}
                          /\ UNCHANGED pgsql
                     ELSE /\ pc' = [pc EXCEPT ![w] = "insert"]
                          /\ UNCHANGED <<pgsql, ret, waited, droppedAt>>
  /\ UNCHANGED <<votes, tableExists, envVars, kaCurrent, elapsed, intakeVars, aggVars, enq,
                 written, arrivedDown, lastApplied>>

\* UpdateVote, the try block: the INSERT. Any DbException (unique violation,
\* a value the column does not take, or the command failing on a dropped
\* connection) goes to the catch.
UpdateVote_Insert(w) ==
  /\ pc[w] = "insert"
  /\ IF Usable(pgsql[w]) /\ ~InsertRaises(votes, vote[w].voter_id, vote[w].vote)
     THEN /\ votes' = InsertRow(votes, vote[w].voter_id, vote[w].vote)
          /\ written' = written \cup {cur[w]}
          /\ lastApplied' = [lastApplied EXCEPT ![vote[w].voter_id] = cur[w]]
          /\ pc' = [pc EXCEPT ![w] = "loop"]
          /\ vote' = [vote EXCEPT ![w] = definition]
          /\ cur' = [cur EXCEPT ![w] = 0]
          /\ UNCHANGED exitCause
     ELSE IF StateIsOpen(pgsql[w])
     THEN /\ pc' = [pc EXCEPT ![w] = "update"]
          /\ UNCHANGED <<votes, written, lastApplied, vote, cur, exitCause>>
     ELSE \* the connection is not Open: an InvalidOperationException,
          \* which catch (DbException) does not take
          /\ Exit(w, "write")
          /\ UNCHANGED <<votes, written, lastApplied>>
  /\ UNCHANGED <<queue, tableExists, envVars, ret, pgsql, kaCurrent, elapsed,
                 waited, intakeVars, aggVars, enq, nPop, arrivedDown, droppedAt,
                 checked>>

\* UpdateVote, the catch block: the UPDATE, outside any try. An UPDATE whose
\* WHERE matches no row completes normally.
UpdateVote_Update(w) ==
  /\ pc[w] = "update"
  /\ IF Usable(pgsql[w]) /\ ~UpdateRaises(vote[w].vote)
     THEN /\ votes' = UpdateRow(votes, vote[w].voter_id, vote[w].vote)
          /\ written' = written \cup {cur[w]}
          /\ lastApplied' = [lastApplied EXCEPT ![vote[w].voter_id] = cur[w]]
          /\ pc' = [pc EXCEPT ![w] = "loop"]
          /\ vote' = [vote EXCEPT ![w] = definition]
          /\ cur' = [cur EXCEPT ![w] = 0]
          /\ UNCHANGED exitCause
     ELSE /\ Exit(w, "write")
          /\ UNCHANGED <<votes, written, lastApplied>>
  /\ UNCHANGED <<queue, tableExists, envVars, ret, pgsql, kaCurrent, elapsed,
                 waited, intakeVars, aggVars, enq, nPop, arrivedDown, droppedAt,
                 checked>>

\* Line 116: keepAliveCommand.ExecuteNonQuery(), on the connection the
\* command was created from.
KeepAlive(w) ==
  /\ pc[w] = "keepalive"
  /\ IF kaCurrent[w] /\ Usable(pgsql[w])
     THEN /\ pc' = [pc EXCEPT ![w] = "loop"]
          /\ UNCHANGED <<exitCause, vote, cur>>
     ELSE Exit(w, "keepalive")
  /\ UNCHANGED <<queue, votes, tableExists, envVars, ret, pgsql, kaCurrent,
                 elapsed, waited, intakeVars, aggVars, enq, nPop, written, arrivedDown,
                 droppedAt, lastApplied,
                 checked>>

WorkerStep(w) ==
  \/ OpenDbConnection_Try(w)
  \/ OpenDbConnection_Create(w)
  \/ OpenRedisConnection(w)
  \/ LoopTop(w)
  \/ Pop(w)
  \/ UpdateVote_Insert(w)
  \/ UpdateVote_Update(w)
  \/ KeepAlive(w)

\* ------------------------------------------------------------- Aggregator
\* A bigint in its text form, as the pg driver returns COUNT(id): the
\* decimal digits, most significant first.
RECURSIVE DecimalString(_)
DecimalString(n) ==
  IF n < 10 THEN <<n>> ELSE Append(DecimalString(n \div 10), n % 10)

\* parseInt of a string of decimal digits.
RECURSIVE parseInt(_)
parseInt(str) ==
  IF str = <<>> THEN 0
  ELSE parseInt(SubSeq(str, 1, Len(str) - 1)) * 10 + str[Len(str)]

\* SELECT vote, COUNT(id) AS count FROM votes GROUP BY vote: one row for
\* each vote value some row holds.
GroupBy(t) ==
  {[vote |-> c, count |-> DecimalString(SumRows(t, {r \in RowSpace : r.vote = c}))] :
     c \in {x \in AllChoices : \E r \in RowSpace : r.vote = x /\ t[r] > 0}}

\* The orders in which result.rows may list a set of rows.
RowOrders(S) ==
  {f \in [1..Cardinality(S) -> S] : \A i, j \in 1..Cardinality(S) : f[i] = f[j] => i = j}

\* obj[key] = val on a JavaScript object, kept as its <<key, value>> pairs in
\* insertion order.
\* (variant: an existing key is not replaced)
ObjectSet_Append(obj, key, val) == Append(obj, <<key, val>>)
ObjectSet(obj, key, val) ==
  IF \E i \in 1..Len(obj) : obj[i][1] = key
  THEN [i \in 1..Len(obj) |-> IF obj[i][1] = key THEN <<key, val>> ELSE obj[i]]
  ELSE Append(obj, <<key, val>>)

RECURSIVE ForEachRow(_, _)
ForEachRow(rows, obj) ==
  IF rows = <<>> THEN obj
  ELSE ForEachRow(Tail(rows), ObjectSet(obj, Head(rows).vote, parseInt(Head(rows).count)))

\* var votes = {a: 0, b: 0}; result.rows.forEach(row => votes[row.vote] = parseInt(row.count))
collectVotesFromResult(rows) == ForEachRow(rows, << <<"a", 0>>, <<"b", 0>> >>)

JsonStringify(obj) == [object |-> TRUE, pairs |-> obj]

\* async.retry's option times: 1000.
times == 1000

\* socket.emit('message', { text : 'Welcome!' })
Welcome ==
  [event |-> "message", data |-> JsonStringify(<< <<"text", "Welcome!">> >>)]
Scores(data) == [event |-> "scores", data |-> data]

\* io.sockets.emit(event): every socket connected now receives it.
\* (variant: an emit to a room, which no socket here has joined)
Emit_ToRoom(msg) == received
Emit(msg) ==
  [v \in Viewers |-> IF viewer[v] = "connected" THEN Append(received[v], msg)
                     ELSE received[v]]

\* The query's callback gets err: the client's connection is gone, or the
\* relation votes does not exist (the Aggregator never creates it).
QueryFails == ~(client = "open" /\ dbUp /\ tableExists)

\* Line 106: setTimeout(function() {getVotes(client) }, 1000), after the
\* if/else on err.
\* (variant: the timer set in the else branch only)
AfterQuery_RearmOnSuccess(err) == IF err THEN "idle" ELSE "timer"
AfterQuery(err) == "timer"

\* What the connection handler sends to the new socket.
\* (variant: the last snapshot is sent along)
OnConnection_Replay(inbox) == inbox \o <<Welcome, Scores(scores)>>
OnConnection(inbox) == Append(inbox, Welcome)

\* io.on('connection'): the socket is sent the welcome message.
Connection(v) ==
  /\ aggPc # "off"
  /\ viewer[v] = "new"
  /\ viewer' = [viewer EXCEPT ![v] = "connected"]
  /\ received' = [received EXCEPT ![v] = OnConnection(@)]
  /\ UNCHANGED <<queue, votes, tableExists, envVars, pc, ret, vote, pgsql,
                 kaCurrent, elapsed, waited, exitCause, histVars, intakeVars,
                 scores, queried, client, aggPc, attempts, lastErr, inFlight,
                 snapped>>

\* The viewer's socket closes.
Disconnect(v) ==
  /\ viewer[v] = "connected"
  /\ viewer' = [viewer EXCEPT ![v] = "gone"]
  /\ UNCHANGED <<queue, votes, tableExists, envVars, pc, ret, vote, pgsql,
                 kaCurrent, elapsed, waited, exitCause, histVars, intakeVars,
                 scores, queried, client, aggPc, attempts, received, lastErr,
                 inFlight, snapped>>

\* initializeDatabase: one run of async.retry's task (pool.connect()) and
\* what retry does with its outcome: on success the final callback calls
\* getVotes(client); after the times-th failure it prints "Giving up
\* connecting to database" and nothing is scheduled any more.
initializeDatabase ==
  /\ aggPc = "retry"
  /\ IF dbUp
     THEN /\ client' = "open"
          /\ aggPc' = "query"
          /\ inFlight' = inFlight + 1
          \* retry is over, and with it its count
          /\ attempts' = 0
     ELSE /\ attempts' = attempts + 1
          /\ aggPc' = IF attempts + 1 >= times THEN "gave_up" ELSE "retry"
          /\ UNCHANGED <<client, inFlight>>
  /\ UNCHANGED <<queue, votes, tableExists, envVars, pc, ret, vote, pgsql,
                 kaCurrent, elapsed, waited, exitCause, histVars, intakeVars,
                 scores, queried, viewer, received, lastErr, snapped>>

\* getVotes: the query callback. On err nothing is emitted; otherwise
\* io.sockets.emit("scores", JSON.stringify(votes)). Then the timer is set.
GetVotes ==
  /\ aggPc = "query"
  /\ \A v \in Viewers : Len(received[v]) < MaxInbox
  /\ \E rows \in RowOrders(GroupBy(votes)) :
       IF ~QueryFails
       THEN /\ scores' = JsonStringify(collectVotesFromResult(rows))
            /\ queried' = votes
            /\ snapped' = written
            /\ received' = Emit(Scores(JsonStringify(collectVotesFromResult(rows))))
       ELSE /\ scores' = scores
            /\ queried' = queried
            /\ snapped' = snapped
            /\ received' = received
  /\ aggPc' = AfterQuery(QueryFails)
  /\ lastErr' = QueryFails
  /\ inFlight' = inFlight - 1
  /\ UNCHANGED <<queue, votes, tableExists, envVars, pc, ret, vote, pgsql,
                 kaCurrent, elapsed, waited, exitCause, histVars, intakeVars,
                 client, attempts, viewer>>

\* What is pending once the timer's function has called getVotes(client):
\* the query's callback, and no timer until that callback sets one.
\* (variant: the poll is a setInterval, the timer stays armed)
OnTimeout_Rearm == "timer"
OnTimeout == "query"

\* The timer of line 106 fires: getVotes(client) sends the query.
SetTimeout ==
  /\ aggPc = "timer"
  /\ inFlight < MaxInFlight
  /\ aggPc' = OnTimeout
  /\ inFlight' = inFlight + 1
  /\ UNCHANGED <<queue, votes, tableExists, envVars, pc, ret, vote, pgsql,
                 kaCurrent, elapsed, waited, exitCause, histVars, intakeVars,
                 scores, queried, client, attempts, viewer, received, lastErr,
                 snapped>>

\* A whole UpdateVote of some worker process, seen from the store.
StoreWrite(id, v) ==
  /\ dbUp /\ tableExists
  /\ votes' = UpdateVote(votes, id, v)
  /\ UNCHANGED <<queue, tableExists, envVars, pc, ret, vote, pgsql, kaCurrent,
                 elapsed, waited, exitCause, intakeVars, aggVars, histVars>>

\* The Aggregator next to a store whose table exists; no worker is modelled.
InitAgg ==
  /\ InitCommon
  /\ aggPc = "query"
  /\ inFlight = 1
  /\ client = "open"
  /\ dbUp
  /\ redisUp
  /\ ~useIamAuth
  /\ pc = [w \in Workers |-> "off"]

NextAgg ==
  \/ GetVotes
  \/ SetTimeout
  \/ \E id \in StoreVoters, v \in AllChoices : StoreWrite(id, v)
  \/ DbDown
  \/ DbHeal

\* One worker, static credentials.
Next ==
  \/ \E w \in Workers : WorkerStep(w)
  \/ \E id \in Voters, v \in Choices : Hello(id, v)
  \/ ForeignPush
  \/ DbDown
  \/ DbHeal

Spec == Init /\ [][Next]_vars

\* One worker, token mode, one voter.
NextToken ==
  \/ \E w \in Workers : WorkerStep(w)
  \/ \E v \in Choices : Hello("v1", v)
  \/ DbDown
  \/ DbHeal
  \/ Tick

SpecToken == InitToken /\ [][NextToken]_vars

\* One worker, one voter, either mode of DATABASE_USE_IAM_AUTH, time passing.
InitCred ==
  /\ InitCommon
  /\ aggPc = "off"
  /\ inFlight = 0
  /\ client = "none"
  /\ redisUp
  /\ pc = [w \in Workers |-> IF w = "w1" THEN "db_connect" ELSE "off"]

SpecCred == InitCred /\ [][NextToken]_vars

\* Two workers.
NextMulti ==
  \/ \E w \in Workers : WorkerStep(w)
  \/ \E id \in Voters, v \in Choices : Hello(id, v)
  \/ DbDown

SpecMulti == InitMulti /\ [][NextMulti]_vars

SpecAgg == InitAgg /\ [][NextAgg]_vars

\* The Aggregator from server.listen's callback on, with viewers coming and
\* going, the store endpoint coming and going, and the row of one voter
\* being written.
InitView ==
  /\ InitCommon
  /\ aggPc = "retry"
  /\ inFlight = 0
  /\ client = "none"
  /\ redisUp
  /\ ~useIamAuth
  /\ pc = [w \in Workers |-> "off"]

NextView ==
  \/ initializeDatabase
  \/ GetVotes
  \/ SetTimeout
  \/ \E v \in Viewers : Connection(v)
  \/ \E v \in Viewers : Disconnect(v)
  \/ \E c \in Choices : StoreWrite("v1", c)
  \/ DbDown
  \/ DbHeal

SpecView == InitView /\ [][NextView]_vars

\* One worker, static credentials, and a queue endpoint that comes and goes.
InitRedis ==
  /\ InitCommon
  /\ aggPc = "off"
  /\ inFlight = 0
  /\ client = "none"
  /\ ~useIamAuth
  /\ pc = [w \in Workers |-> IF w = "w1" THEN "db_connect" ELSE "off"]

NextRedis ==
  \/ \E w \in Workers : WorkerStep(w)
  \/ \E id \in Voters, v \in Choices : Hello(id, v)
  \/ ForeignPush
  \/ DbDown
  \/ DbHeal
  \/ RedisDown
  \/ RedisHeal

SpecRedis == InitRedis /\ [][NextRedis]_vars

\* One worker, static credentials, and a client whose voter_id cookie is
\* longer than the id column.
NextUpsert ==
  \/ \E w \in Workers : WorkerStep(w)
  \/ \E id \in {"v1", LongVoter}, v \in Choices : Hello(id, v)
  \/ DbDown
  \/ DbHeal

SpecUpsert == Init /\ [][NextUpsert]_vars

\* Intake alone, one browser followed and its requests served by one intake
\* process, the queue endpoint coming and going; no worker drains the list.
InitIntake ==
  /\ InitCommon
  /\ aggPc = "off"
  /\ inFlight = 0
  /\ client = "none"
  /\ dbUp
  /\ ~tableExists
  /\ ~useIamAuth
  /\ pc = [w \in Workers |-> "off"]

NextIntake ==
  \/ \E b \in Browsers, method \in Methods, form \in Forms, bits \in RandBits :
       hello("g1", b, method, form, bits)
  \/ toggle_error_sim("g1")
  \/ RedisDown
  \/ RedisHeal

SpecIntake == InitIntake /\ [][NextIntake]_vars

\* Intake with its JSON endpoints, every request served by any of the intake
\* processes: requests of one browser (a vote for a, or a form without the
\* field), the simulation's endpoints and /health, the queue endpoint coming
\* and going.
NextToggle ==
  \/ \E p \in IntakeProcs, b \in Browsers, method \in Methods,
        form \in {"a", NoField} :
       hello(p, b, method, form, 431)
  \/ \E p \in IntakeProcs : get_error_sim_status(p)
  \/ \E p \in IntakeProcs : toggle_error_sim(p)
  \/ \E p \in IntakeProcs : health(p)
  \/ RedisDown
  \/ RedisHeal

SpecToggle == InitIntake /\ [][NextToggle]_vars

\* The Aggregator alone, from server.listen's callback on, the store endpoint
\* coming and going and the row of one voter being written. Node's event
\* loop runs every pending callback and every timer that is due.
NextPoll ==
  \/ initializeDatabase
  \/ GetVotes
  \/ SetTimeout
  \/ \E c \in Choices : StoreWrite("v1", c)
  \/ DbDown
  \/ DbHeal

SpecPoll ==
  /\ InitView
  /\ [][NextPoll]_vars
  /\ WF_vars(initializeDatabase)
  /\ WF_vars(GetVotes)
  /\ WF_vars(SetTimeout)

\* The whole pipeline: votes accepted by the intake from a voter and from a
\* client whose voter_id cookie is longer than the id column, one worker
\* and the Aggregator, queue and store reachable throughout.
InitPipe ==
  /\ InitCommon
  /\ aggPc = "retry"
  /\ inFlight = 0
  /\ client = "none"
  /\ dbUp
  /\ redisUp
  /\ ~useIamAuth
  /\ pc = [w \in Workers |-> IF w = "w1" THEN "db_connect" ELSE "off"]

NextPipe ==
  \/ \E w \in Workers : WorkerStep(w)
  \/ \E id \in {"v1", LongVoter} : Hello(id, "a")
  \/ initializeDatabase
  \/ GetVotes
  \/ SetTimeout

\* The worker process is scheduled, and Node's event loop runs every
\* pending callback and every timer that is due.
SpecPipe ==
  /\ InitPipe
  /\ [][NextPipe]_vars
  /\ WF_vars(WorkerStep("w1"))
  /\ WF_vars(initializeDatabase)
  /\ WF_vars(GetVotes)
  /\ WF_vars(SetTimeout)

\* ================================================================ claims
Max(S) == CHOOSE i \in S : \A j \in S : j <= i
\* Push indices of voter id whose UpdateVote returned normally.
WrittenFor(id) == {i \in written : enq[i].voter_id = id}
RowFor(sub) == [id |-> sub.voter_id, vote |-> sub.vote]
\* The step is one of worker w's own.
StepOf(w) == pc'[w] # pc[w] \/ waited'[w] # waited[w]

\* Push indices of voter id that have been popped.
PoppedFor(id) == {i \in 1..nPop : enq[i].voter_id = id}

\* C1 (Spec): for the Submissions of one voter that the single worker has
\* written, taken in enqueue order, the voter's Tally Row holds the choice
\* of the last of them; and while the worker has dropped no record and holds
\* none, the written Submissions of a voter are all its popped ones.
C1_LastWriteWins ==
  \A id \in Voters :
    /\ WrittenFor(id) # {} =>
         /\ RowsOf(votes, id) = {RowFor(enq[Max(WrittenFor(id))])}
         /\ CountOf(votes, id) = 1
    /\ (droppedAt = {} /\ \A w \in Workers : exitCause[w] = "" /\ cur[w] = 0)
         => WrittenFor(id) = PoppedFor(id)

C1_Witness ==
  \E i, j \in written :
    /\ i < j
    /\ enq[i].voter_id = enq[j].voter_id
    /\ enq[i].vote # enq[j].vote
    /\ j = Max(WrittenFor(enq[j].voter_id))
    /\ votes[RowFor(enq[j])] = 1

\* C2 (SpecMulti): with two workers writing concurrently, the table never
\* holds more than one row for a voter identity.
C2_OneRowPerVoter == \A id \in StoreVoters : CountOf(votes, id) <= 1

C2_Witness ==
  /\ pc["w1"] = "update"
  /\ pc["w2"] = "update"
  /\ vote["w1"].voter_id = vote["w2"].voter_id
  /\ vote["w1"].vote # vote["w2"].vote
  /\ CountOf(votes, vote["w1"].voter_id) = 1

\* C3 (Spec): once UpdateVote(voter_id, vote) has been applied, so that the
\* voter's row holds vote, every step of a second UpdateVote with the same
\* arguments leaves the whole table as it was.
C3_Idempotent ==
  [][\A w \in Workers :
       ( /\ pc[w] \in {"insert", "update"}
         /\ StepOf(w)
         /\ pc'[w] # "exited"
         /\ votes[RowFor(vote[w])] = 1
         /\ CountOf(votes, vote[w].voter_id) = 1 )
       => votes' = votes]_vars

\* The same record was pushed twice in a row and both were written.
C3_Witness ==
  \E i \in written :
    /\ i + 1 \in written
    /\ enq[i] = enq[i + 1]
    /\ votes[RowFor(enq[i])] = 1
    /\ RowCount(votes) = 2

\* C4 (Spec): when an UpdateVote of the worker returns on an open store
\* connection, the table holds exactly the row {id, vote} of the record that
\* Intake pushed, and if the voter had a row before, the number of rows is
\* unchanged.
C4_RoundTrip ==
  [][\A w \in Workers :
       ( /\ pc[w] \in {"insert", "update"}
         /\ pc'[w] \notin {"insert", "update"}
         /\ Usable(pgsql[w]) )
       => /\ pc'[w] = "loop"
          /\ RowsOf(votes', enq[cur[w]].voter_id) = {RowFor(enq[cur[w]])}
          /\ CountOf(votes', enq[cur[w]].voter_id) = 1
          /\ cur[w] \in written'
          /\ CountOf(votes, enq[cur[w]].voter_id) > 0 => RowCount(votes') = RowCount(votes)]_vars

\* {voter_id: v, vote: a} then {voter_id: v, vote: b}: one row, vote b.
C4_Witness ==
  /\ Len(enq) >= 2
  /\ enq[1].voter_id = enq[2].voter_id
  /\ enq[1].vote = "a"
  /\ enq[2].vote = "b"
  /\ {1, 2} \subseteq written
  /\ votes[RowFor(enq[2])] = 1
  /\ RowCount(votes) = 1

\* Number of rows of table t holding vote value c.
Holding(t, c) == SumRows(t, {r \in RowSpace : r.vote = c})

\* C5 (SpecAgg): the snapshot built from a successful query has one entry
\* for each vote value some row holds (and for a and b), and each entry's
\* count is the number of rows holding that value.
C5_AggregateCounts ==
  scores.object =>
    /\ \A i \in 1..Len(scores.pairs) :
         scores.pairs[i][2] = Holding(queried, scores.pairs[i][1])
    /\ \A i, j \in 1..Len(scores.pairs) :
         scores.pairs[i][1] = scores.pairs[j][1] => i = j
    /\ \A c \in AllChoices :
         (Holding(queried, c) > 0 \/ c \in Choices) =>
           \E i \in 1..Len(scores.pairs) : scores.pairs[i][1] = c

\* Rows a, a, b give {a: 2, b: 1}.
C5_Witness ==
  /\ Holding(queried, "a") = 2
  /\ Holding(queried, "b") = 1
  /\ Holding(queried, "c") = 0
  /\ scores = JsonStringify(<< <<"a", 2>>, <<"b", 1>> >>)

\* C6 (SpecToken): in token mode every loop iteration that finds the token
\* older than the refresh interval mints a new one, also when the pop
\* returned nothing and the iteration takes the keep-alive path.
C6_RefreshWithoutTraffic ==
  [][\A w \in Workers :
       ( /\ useIamAuth
         /\ pc[w] = "pop"
         /\ pc'[w] # "pop"
         /\ redisUp
         /\ elapsed[w] > tokenRefreshInterval )
       => pc'[w] = "db_connect" /\ ret'[w] = "refresh"]_vars

\* Push index i is still on the queue.
InQueue(i) == i > nPop
\* The worker is back in its loop on an open store connection.
Healed == \E w \in Workers : pc[w] = "loop" /\ pgsql[w] = "open" /\ dbUp

\* C7 as stated (Spec): an entry that arrived while the store connection
\* was down is lost: it never reaches the tally.
C7_ArrivalsDuringOutageLost == \A i \in arrivedDown : i \notin written

\* C7 amended (Spec): the entry popped while the store connection was found
\* not Open is lost, neither written nor put back on the queue; the queue
\* holds exactly the pushed entries not yet popped.
C7_PoppedWhileDownLost ==
  /\ \A i \in droppedAt : i \notin written /\ ~InQueue(i)
  /\ Len(queue) = Len(enq) - nPop
  /\ \A k \in 1..Len(queue) :
       enq[nPop + k] # Garbage => queue[k] = JsonDumps(enq[nPop + k].voter_id, enq[nPop + k].vote)

\* One entry was lost on the reconnect and a later one, which arrived
\* during the outage, was written after the heal.
C7_Witness ==
  \E i \in droppedAt, j \in arrivedDown :
    /\ i < j
    /\ j \in written
    /\ Healed
    /\ RowsOf(votes, enq[i].voter_id) # {RowFor(enq[i])}

\* No row holds a value that no pushed record of that voter carried.
NoCorruption ==
  \A r \in RowSpace :
    votes[r] > 0 => \E i \in 1..Len(enq) : RowFor(enq[i]) = r

\* C8 (Spec): a dropped store connection never ends the worker (it stays
\* able to resume writing once the store accepts connections again), and
\* no row is corrupted.
C8_ResumesAfterDrop ==
  /\ \A w \in Workers : exitCause[w] \notin {"keepalive", "write"}
  /\ NoCorruption

\* C9 (Spec): popping a record that cannot be decoded drops it, writes
\* nothing and leaves the worker at the top of its loop.
C9_DecodeFailureNonFatal ==
  [][\A w \in Workers :
       ( /\ pc[w] = "pop"
         /\ pc'[w] # "pop"
         /\ redisUp
         /\ queue # <<>>
         /\ DeserializeThrows(Head(queue)) )
       => /\ pc'[w] = "loop"
          /\ queue' = Tail(queue)
          /\ votes' = votes]_vars

\* A step of worker w inside the OpenDbConnection of "Reconnect DB if down".
ReconnectStep(w) ==
  /\ pc[w] \in {"db_connect", "db_create"}
  /\ ret[w] = "reconnect"
  /\ StepOf(w)

\* C10 as stated (Spec): when a reopen attempt of the reconnect branch
\* fails, the record is neither written nor re-queued and the worker is at
\* the next iteration.
C10_FailedReopenNextIteration ==
  [][\A w \in Workers :
       (ReconnectStep(w) /\ pc[w] = "db_connect" /\ ~dbUp)
       => /\ votes' = votes
          /\ queue' = queue
          /\ pc'[w] = "loop"]_vars

\* C10 amended (Spec): a pop that finds the connection not Open enters the
\* reconnect; while attempts fail the worker stays in OpenDbConnection; no
\* step of the reconnect writes or re-queues; the worker reaches the next
\* iteration only from a successful reopen, with the record dropped.
C10_ReopenBlocksRecordLost ==
  [][\A w \in Workers :
       /\ ( /\ pc[w] = "pop" /\ pc'[w] \notin {"pop", "keepalive", "exited"}
            /\ pgsql[w] \in {"closed", "none"} )
          => pc'[w] = "db_connect" /\ ret'[w] = "reconnect" /\ votes' = votes
       /\ ReconnectStep(w)
          => /\ votes' = votes
             /\ queue' = queue
             /\ written' = written
             /\ (pc[w] = "db_connect" /\ ~dbUp) => pc'[w] = "db_connect"
             /\ pc'[w] = "loop" => (pc[w] = "db_create" /\ Usable(pgsql[w]) /\ cur'[w] = 0)
             /\ pc'[w] \in {"db_connect", "db_create", "loop", "exited"}]_vars

\* A reopen attempt of the reconnect branch has failed; the record is held,
\* unwritten and not on the queue.
C10_Witness ==
  \E w \in Workers :
    /\ pc[w] = "db_connect"
    /\ ret[w] = "reconnect"
    /\ waited[w]
    /\ cur[w] \in droppedAt
    /\ cur[w] \notin written
    /\ ~InQueue(cur[w])

\* C11 (SpecRedis): no failure of the queue ends the worker: a queue that is
\* unreachable while OpenRedisConnection runs only keeps the worker there
\* (the action has no exit), and no worker reaches Main's catch from the
\* pop of line 79.
C11_QueueFailureNeverFatal ==
  \A w \in Workers : exitCause[w] # "pop"

\* C12 (SpecRedis): the worker has no terminal state: whatever the queue
\* and the store do, and whatever the queue holds, no worker reaches the
\* return of Main's catch.
C12_NoTerminalState ==
  \A w \in Workers : pc[w] # "exited"
\* The payload of pushed record sub.
Encoded(sub) ==
  IF sub = Garbage THEN Malformed ELSE JsonDumps(sub.voter_id, sub.vote)

\* C13 (Spec): first in, first out: a push lands behind everything queued;
\* the k-th pop removes the head of the list and hands the worker the k-th
\* record pushed; and the worker's writes complete in push order.
C13_FifoOrder ==
  [][ /\ Len(enq') > Len(enq) =>
           queue' = queue \o <<Encoded(enq'[Len(enq')])>>
      /\ nPop' # nPop =>
           /\ nPop' = nPop + 1
           /\ Head(queue) = Encoded(enq[nPop'])
           /\ queue' = Tail(queue)
           /\ \A w \in Workers :
                cur'[w] # cur[w] /\ cur'[w] # 0 =>
                  cur'[w] = nPop' /\ vote'[w] = enq[nPop']
      /\ \A i \in written' \ written : \A j \in written : j < i ]_vars

\* Two different records were popped and written one after the other in
\* push order, and the third pushed is alone in the queue.
C13_Witness ==
  /\ Len(enq) = MaxEnq
  /\ nPop = 2
  /\ enq[1] # enq[2]
  /\ written = {1, 2}
  /\ lastApplied[enq[2].voter_id] = 2
  /\ queue = <<Encoded(enq[3])>>

\* C14 (SpecMulti): every entry is removed once: with two workers popping,
\* no entry is held by both, each worker holds the record of the entry it
\* popped, each pop shortened the list by one, and only popped entries are
\* written.
C14_PoppedOnce ==
  /\ \A w1, w2 \in Workers : w1 # w2 /\ cur[w1] # 0 => cur[w1] # cur[w2]
  /\ \A w \in Workers :
       cur[w] # 0 => cur[w] \in 1..nPop /\ vote[w] = enq[cur[w]] /\ cur[w] \notin written
  /\ Len(queue) + nPop = Len(enq)
  /\ \A k \in 1..Len(queue) : queue[k] = Encoded(enq[nPop + k])
  /\ written \subseteq 1..nPop

\* Both workers hold an entry at once, the two entries carrying the same
\* payload.
C14_Witness ==
  /\ cur["w1"] # 0
  /\ cur["w2"] # 0
  /\ cur["w1"] # cur["w2"]
  /\ enq[cur["w1"]] = enq[cur["w2"]]

\* C15 (SpecMulti): with two workers writing, after every completed
\* statement of an UpdateVote the voter's single row holds the choice of the
\* write applied last for that voter (so also once all writes are done).
C15_LastAppliedWins ==
  \A id \in Voters :
    lastApplied[id] # 0 =>
      /\ RowsOf(votes, id) = {RowFor(enq[lastApplied[id]])}
      /\ CountOf(votes, id) = 1

\* All writes are done, and the row holds the choice submitted first: the
\* later submission was written before the earlier one.
C15_Witness ==
  \E i, j \in written :
    /\ i < j
    /\ enq[i].voter_id = enq[j].voter_id
    /\ enq[i].vote # enq[j].vote
    /\ lastApplied[enq[i].voter_id] = i
    /\ votes[RowFor(enq[i])] = 1
    /\ queue = <<>>
    /\ \A w \in Workers : cur[w] = 0 /\ pc[w] \in {"loop", "pop", "keepalive"}
\* The step is a request of a followed browser answered by hello.
RequestStep == resp' # resp \/ queue' # queue \/ prevError' # prevError

Minted == {MintVoterId(bits) : bits \in RandBits}

\* C16 (SpecIntake): a request answered normally that carried a voter_id
\* cookie gets that same value set again, one that carried none gets a
\* minted value; the browser keeps what was set; and for a POST the record
\* appended to the queue carries that value as voter_id.
C16_IdentityReused ==
  [][ (RequestStep /\ resp'.status = 200) =>
        LET b == resp'.browser IN
        /\ cookie[b] # "" => resp'.set_cookie = cookie[b]
        /\ cookie[b] = "" => resp'.set_cookie \in Minted
        /\ cookie'[b] = resp'.set_cookie
        /\ resp'.method = "POST" =>
             /\ Len(queue') = Len(queue) + 1
             /\ JsonField(queue'[Len(queue')], "voter_id") = resp'.set_cookie ]_vars

\* The browser had no cookie, was given a minted one by its first POST and
\* sent it with its second: both records carry it.
C16_Witness ==
  /\ Len(queue) = 2
  /\ cookie["b1"] = MintVoterId(431)
  /\ JsonField(queue[1], "voter_id") = cookie["b1"]
  /\ JsonField(queue[2], "voter_id") = cookie["b1"]
  /\ resp.method = "POST"
  /\ resp.set_cookie = cookie["b1"]

\* C17 (SpecIntake): a POST whose form has no vote field, or a vote that is
\* not one of the two options, leaves the queue as it was.
C17_MalformedChoiceRejected ==
  [][ (RequestStep /\ resp'.method = "POST" /\ resp'.form \notin Choices) =>
        queue' = queue ]_vars

\* C18 (SpecIntake): a POST with a vote field, error simulation off: while
\* the queue endpoint is unreachable it is answered with a server error,
\* sets no cookie and appends nothing; while the endpoint is reachable,
\* whatever happened before, it is answered normally and its record is
\* appended.
C18_QueueDownFailsThenRetry ==
  [][ ( /\ RequestStep
        /\ resp'.method = "POST"
        /\ ~ERROR_SIM_ENABLED[resp'.pid]
        /\ resp'.form # NoField ) =>
        IF redisUp
        THEN /\ resp'.status = 200
             /\ resp'.error = ""
             /\ Len(queue') = Len(queue) + 1
             /\ JsonField(queue'[Len(queue')], "vote") = resp'.form
        ELSE /\ resp'.status = 500
             /\ resp'.error = "redis"
             /\ resp'.set_cookie = NoCookie
             /\ queue' = queue
             /\ cookie' = cookie ]_vars

\* A POST failed on the unreachable queue, and the next request, a POST
\* after the queue came back, put the first record on the queue.
C18_Witness ==
  /\ prevError = "redis"
  /\ resp.method = "POST"
  /\ resp.status = 200
  /\ redisUp
  /\ Len(queue) = 1
  /\ JsonField(queue[1], "vote") = resp.form

\* C19 (SpecIntake): every POST answered normally appends exactly its own
\* record at the tail, whatever the queue already holds; no other request
\* changes the queue.
C19_NoDedup ==
  [][ /\ (RequestStep /\ resp'.method = "POST" /\ resp'.status = 200) =>
           queue' = queue \o <<JsonDumps(resp'.set_cookie, resp'.form)>>
      /\ queue' # queue =>
           /\ resp'.method = "POST"
           /\ resp'.status = 200
           /\ Len(queue') = Len(queue) + 1 ]_vars

\* The same voter posted the same choice twice and then another one: three
\* entries.
C19_Witness ==
  /\ Len(queue) = 3
  /\ queue[1] = queue[2]
  /\ queue[3] # queue[2]
  /\ \A k \in 1..3 : JsonField(queue[k], "voter_id") = cookie["b1"]
  /\ resp.method = "POST"
  /\ resp.status = 200
\* C20 (SpecUpsert): UpdateVote completes its UPDATE only when the INSERT
\* failed on the unique constraint, that is when the voter had a row; and
\* whenever UpdateVote returns normally the voter's row exists and holds
\* the record's vote.
C20_UpdateOnlyOnUniqueViolation ==
  [][\A w \in Workers :
       /\ (pc[w] = "update" /\ pc'[w] = "loop") =>
            InsertViolatesUnique(votes, vote[w].voter_id)
       /\ (pc[w] \in {"insert", "update"} /\ pc'[w] = "loop") =>
            RowsOf(votes', vote[w].voter_id) = {RowFor(vote[w])} ]_vars
\* C21 (SpecToken): OpenDbConnection, in each of its three calls, stays in
\* its loop on either kind of failure while the endpoint does not accept
\* the connection, leaves the loop only with an accepted connection, and
\* returns to its caller only with the table votes created.
C21_OpenBlocksUntilTableExists ==
  [][\A w \in Workers :
       /\ (pc[w] = "db_connect" /\ StepOf(w) /\ ~dbUp) =>
            pc'[w] = "db_connect" /\ waited'[w] /\ exitCause'[w] = ""
       /\ (pc[w] = "db_connect" /\ pc'[w] # "db_connect") =>
            dbUp /\ pc'[w] = "db_create" /\ pgsql'[w] = "open"
       /\ (pc[w] = "db_create" /\ pc'[w] \notin {"db_create", "exited"}) =>
            tableExists' /\ pgsql'[w] = "open" ]_vars

\* The reopening after a token refresh printed "Waiting for db", then had
\* its connection accepted: CREATE TABLE is next.
C21_Witness ==
  \E w \in Workers :
    /\ pc[w] = "db_create"
    /\ ret[w] = "refresh"
    /\ waited[w]
    /\ pgsql[w] = "open"
\* The step is the callback of the Aggregator's query.
GetVotesStep == aggPc = "query" /\ aggPc' # "query"
\* The last event viewer v has received after the step.
LastReceived(v) == received'[v][Len(received'[v])]

\* C22 (SpecView): a query callback without err emits the snapshot of the
\* table as it is, and every socket connected at that moment receives that
\* snapshot and nothing else, the other sockets nothing; every callback
\* sets the timer, and the timer leads to the next query: once polling,
\* the Aggregator never stops.
C22_EveryCyclePublishes ==
  [][ /\ (GetVotesStep /\ ~QueryFails) =>
           /\ scores'.object
           /\ \A i \in 1..Len(scores'.pairs) :
                scores'.pairs[i][2] = Holding(votes, scores'.pairs[i][1])
           /\ \A v \in Viewers :
                IF viewer[v] = "connected"
                THEN /\ Len(received'[v]) = Len(received[v]) + 1
                     /\ SubSeq(received'[v], 1, Len(received[v])) = received[v]
                     /\ LastReceived(v).event = "scores"
                     /\ LastReceived(v).data = scores'
                ELSE received'[v] = received[v]
      /\ GetVotesStep => aggPc' = "timer"
      /\ aggPc \in {"query", "timer"} => aggPc' \in {"query", "timer"}
      /\ (aggPc = "timer" /\ aggPc' # "timer") => aggPc' = "query" ]_vars

\* Both viewers are connected and the last cycle sent both {a: 1, b: 0}.
C22_Witness ==
  /\ aggPc = "timer"
  /\ ~lastErr
  /\ scores = JsonStringify(<< <<"a", 1>>, <<"b", 0>> >>)
  /\ \A v \in Viewers :
       /\ viewer[v] = "connected"
       /\ Len(received[v]) >= 2
       /\ received[v][Len(received[v])].event = "scores"
       /\ received[v][Len(received[v])].data = scores
\* C23 (SpecView): the connection of a viewer hands its socket the welcome
\* message and nothing else; after that the socket receives exactly the
\* snapshots emitted while it is connected, each at the query callback
\* that built it: the first event of every socket is the welcome, all
\* later ones are snapshots, and none was emitted before the connection.
C23_WelcomeThenNextSnapshot ==
  [][\A v \in Viewers :
       /\ (viewer[v] = "new" /\ viewer'[v] # "new") =>
            /\ received[v] = <<>>
            /\ Len(received'[v]) = 1
            /\ received'[v][1].event = "message"
            /\ received'[v][1].data = Welcome.data
       /\ (viewer[v] # "new" /\ received'[v] # received[v]) =>
            /\ viewer[v] = "connected"
            /\ GetVotesStep /\ ~QueryFails
            /\ Len(received'[v]) = Len(received[v]) + 1
            /\ LastReceived(v).event = "scores"
            /\ LastReceived(v).data = scores'
       /\ (viewer[v] = "connected" /\ GetVotesStep /\ ~QueryFails) =>
            received'[v] # received[v] ]_vars

\* s2 connected after a snapshot that s1 received, got the welcome and then
\* the next snapshot, the same one s1 got last; the earlier one it never
\* got.
C23_Witness ==
  /\ viewer["s1"] = "connected"
  /\ viewer["s2"] = "connected"
  /\ Len(received["s1"]) = 3
  /\ Len(received["s2"]) = 2
  /\ received["s2"][1].event = "message"
  /\ received["s2"][2].event = "scores"
  /\ received["s2"][2].data = received["s1"][3].data
  /\ received["s1"][2].data # received["s1"][3].data

\* C24 (SpecView): a query callback with err emits nothing (no socket
\* receives anything, the last snapshot emitted stays what it was) and sets
\* the timer like any other; the Aggregator is then polling as before; and
\* in every state a viewer not yet connected can connect.
C24_FailedQuerySkipsCycle ==
  /\ [](\A v \in Viewers : (aggPc # "off" /\ viewer[v] = "new") => ENABLED Connection(v))
  /\ [][ (GetVotesStep /\ QueryFails) =>
           /\ received' = received
           /\ scores' = scores
           /\ lastErr'
           /\ aggPc' = "timer" ]_vars

\* The last query failed on the client whose connection the store dropped;
\* s1 got a snapshot before that, s2 connected since and has the welcome
\* only.
C24_Witness ==
  /\ lastErr
  /\ client = "broken"
  /\ aggPc = "timer"
  /\ viewer["s1"] = "connected"
  /\ viewer["s2"] = "connected"
  /\ Len(received["s1"]) = 2
  /\ received["s2"] = <<Welcome>>

\* C25 (SpecView): the Aggregator's initial connection never gives up: while
\* the store is unreachable async.retry keeps running its task.
C25_InitialConnectNeverGivesUp == aggPc # "gave_up"
\* C26 (SpecAgg): no step of an UpdateVote or of the Aggregator removes a
\* row: a voter who has a row keeps exactly that one row, only its vote may
\* change, and the number of rows never decreases.
C26_RowsNeverDeleted ==
  [][ /\ \A id \in StoreVoters :
           CountOf(votes, id) > 0 => CountOf(votes', id) = CountOf(votes, id)
      /\ RowCount(votes') >= RowCount(votes)
      /\ GetVotesStep => votes' = votes ]_vars

\* The Aggregator saw v1's row holding a; the table now holds b for v1, in
\* as many rows as it had then.
C26_Witness ==
  /\ queried[[id |-> "v1", vote |-> "a"]] = 1
  /\ votes[[id |-> "v1", vote |-> "b"]] = 1
  /\ CountOf(votes, "v1") = 1
  /\ RowCount(votes) = RowCount(queried)
  /\ RowCount(votes) = 2
\* The step is a request answered by get_error_sim_status, toggle_error_sim
\* or health.
ApiStep == apiResp' # apiResp \/ toggledFrom' # toggledFrom

\* The last answer of the intake's JSON endpoints came from /api/error-sim
\* and said that the simulation is on (e = TRUE) or off (e = FALSE).
ToggleSaid(e) ==
  /\ apiResp.route = "/api/error-sim"
  /\ apiResp.json = <<<<"enabled", e>>>>

\* C27 (SpecToggle): a POST of a vote made after the intake said that the
\* simulation is on is answered 500 with the simulated error and leaves the
\* queue and the browser's cookie as they were; made after the intake said
\* that it is off, the POST never gets the simulated error, and with a vote
\* field and a reachable queue it is answered 200 and appends one record
\* carrying that vote.
C27_SimulationOnFailsEveryPost ==
  [][ (RequestStep /\ resp'.method = "POST") =>
        /\ ToggleSaid(TRUE) =>
             /\ resp'.status = 500
             /\ resp'.error = "simulated"
             /\ queue' = queue
             /\ enq' = enq
             /\ cookie' = cookie
        /\ ToggleSaid(FALSE) =>
             /\ resp'.error # "simulated"
             /\ (resp'.form # NoField /\ redisUp) =>
                  /\ resp'.status = 200
                  /\ Len(queue') = Len(queue) + 1
                  /\ JsonField(queue'[Len(queue')], "vote") = resp'.form ]_vars

\* C28 (SpecToggle): /health is answered 200 with status healthy whatever
\* the ERROR_SIM_ENABLED of the process serving it is, and the request
\* leaves every process's ERROR_SIM_ENABLED and the queue as they were.
C28_HealthUnaffected ==
  [][ (ApiStep /\ apiResp'.route = "/health") =>
        /\ apiResp'.status = 200
        /\ apiResp'.json[1] = <<"status", "healthy">>
        /\ ERROR_SIM_ENABLED' = ERROR_SIM_ENABLED
        /\ queue' = queue
        /\ enq' = enq ]_vars

\* /health answered by a process whose simulation is on and has just
\* refused a vote, with a record on the queue.
C28_Witness ==
  /\ apiResp.route = "/health"
  /\ apiResp.status = 200
  /\ ERROR_SIM_ENABLED[apiResp.pid]
  /\ resp.error = "simulated"
  /\ resp.pid = apiResp.pid
  /\ Len(queue) = 1

\* C29 (SpecToggle): the first answer of /api/error-sim is off for a GET and
\* on for a POST; after an answer e of /api/error-sim, a POST answers the
\* negation of e and a GET answers e; so the second of two consecutive
\* POSTs answers the value the first one found.
C29_ToggleFlips ==
  [][ (ApiStep /\ apiResp'.route = "/api/error-sim") =>
        /\ apiResp'.status = 200
        /\ apiResp = NoApiResponse =>
             apiResp'.json = <<<<"enabled", apiResp'.method = "POST">>>>
        /\ \A e \in BOOLEAN :
             ToggleSaid(e) =>
               apiResp'.json =
                 <<<<"enabled", IF apiResp'.method = "POST" THEN ~e ELSE e>>>> ]_vars

\* Worker w's step executes a command on its store connection: the
\* keep-alive probe, the INSERT or the UPDATE.
StoreUse(w) == pc[w] \in {"keepalive", "insert", "update"} /\ pc'[w] # pc[w]

\* C30 (SpecToken): whenever a worker executes a command on its store
\* connection, the keep-alive probe included, its current iteration has
\* already evaluated the queue connection test and the credential
\* freshness test.
C30_ChecksBeforeStoreUse ==
  [][ \A w \in Workers :
        StoreUse(w) => {"queue", "credential"} \subseteq checked[w] ]_vars

\* C31 (Spec): a pop that returns nothing takes the worker to the keep-alive
\* probe without a write, and the probe takes it back to the top of the
\* loop, again without a write.
C31_EmptyPopProbeThenLoop ==
  [][ \A w \in Workers :
        /\ (pc[w] = "pop" /\ pc'[w] # "pop" /\ redisUp /\ queue = <<>>)
           => (pc'[w] = "keepalive" /\ votes' = votes /\ written' = written)
        /\ (pc[w] = "keepalive" /\ pc'[w] # "keepalive")
           => (pc'[w] = "loop" /\ votes' = votes /\ written' = written) ]_vars

\* Worker w's step enters the refresh of lines 88-100.
RefreshStart(w) == ret'[w] = "refresh" /\ ret[w] # "refresh"
\* Worker w's step is the return of OpenDbConnection to line 98.
RefreshDone(w) ==
  pc[w] = "db_create" /\ ret[w] = "refresh" /\ pc'[w] \notin {"db_create", "exited"}

\* C32 (SpecCred): with static credentials no step of the worker enters the
\* refresh or closes its store connection; in token mode the refresh is
\* entered only when more than tokenRefreshInterval has passed since
\* lastTokenRefresh, it closes the connection, and its completion leaves an
\* open connection, a keep-alive command of that connection and
\* lastTokenRefresh set to now.
C32_RefreshOnlyInTokenMode ==
  [][ \A w \in Workers :
        /\ ~useIamAuth =>
             /\ ret'[w] # "refresh"
             /\ (StepOf(w) /\ pgsql'[w] = "closed") => pgsql[w] = "closed"
        /\ RefreshStart(w) =>
             /\ useIamAuth
             /\ elapsed[w] > tokenRefreshInterval
             /\ pgsql'[w] = "closed"
             /\ pc'[w] = "db_connect"
        /\ RefreshDone(w) =>
             /\ pgsql'[w] = "open"
             /\ kaCurrent'[w]
             /\ elapsed'[w] = 0 ]_vars

\* Token mode: the refresh triggered by the second record popped has
\* completed; lastTokenRefresh is now.
C32_Witness ==
  \E w \in Workers :
    /\ useIamAuth
    /\ ret[w] = "refresh"
    /\ pc[w] = "insert"
    /\ elapsed[w] = 0
    /\ cur[w] = 2
    /\ 1 \in written

\* Worker w's step is a pop that took a record off the queue.
PopsRecord(w) == pc[w] = "pop" /\ pc'[w] # "pop" /\ nPop' = nPop + 1

\* C33 (SpecPipe): a worker pops a record only while it holds none (the
\* one popped before was written, dropped or ended the worker), and the
\* Aggregator never has more than one query awaiting its callback: the
\* timer is pending only while no query is, and a query is sent only by
\* initializeDatabase or by the timer.
C33_NoInterleavedIterations ==
  /\ [](inFlight <= 1 /\ (aggPc = "timer" => inFlight = 0))
  /\ [][ /\ \A w \in Workers :
              PopsRecord(w) => (cur[w] = 0 /\ vote[w] = definition)
         /\ inFlight' > inFlight => (inFlight = 0 /\ aggPc \in {"retry", "timer"})
     ]_vars

\* The worker holds the second record popped, the first one written, while
\* the Aggregator's query, sent by the timer after an earlier snapshot,
\* awaits its callback.
C33_Witness ==
  /\ \E w \in Workers : cur[w] = 2 /\ pc[w] \in {"insert", "update"}
  /\ 1 \in written
  /\ inFlight = 1
  /\ aggPc = "query"
  /\ scores.object

\* C34 (SpecPoll): once the Aggregator has had its connection, a failed
\* query with the store reachable (and the table there) is followed by a
\* query that succeeds, unless the store becomes unreachable again first.
C34_ResumesAfterStoreReturns ==
  (lastErr /\ client # "none" /\ dbUp /\ tableExists) ~> (~lastErr \/ ~dbUp)

\* Worker w's step completes an UpdateVote.
WriteStep(w) == StepOf(w) /\ written' # written

\* C35 (Spec): no record popped with the connection found not Open is ever
\* written; the return of the reconnect's OpenDbConnection leads to the top
\* of the loop with no record held, never to UpdateVote; and an UpdateVote
\* completes only in an iteration that did not take the reconnect branch.
C35_ReconnectExcludesWrite ==
  /\ [](droppedAt \cap written = {})
  /\ [][ \A w \in Workers :
           /\ (pc[w] = "db_create" /\ ret[w] = "reconnect" /\ pc'[w] # "db_create")
              => /\ pc'[w] \in {"loop", "exited"}
                 /\ cur'[w] = 0
                 /\ vote'[w] = definition
                 /\ votes' = votes
           /\ WriteStep(w)
              => /\ ret[w] \in {"loop", "refresh"}
                 /\ cur[w] \notin droppedAt ]_vars

\* The reconnect succeeded on a reachable store: the worker is back at the
\* top of its loop on an open connection, holds nothing, and the record it
\* had popped is neither in the table nor on the queue.
C35_Witness ==
  \E w \in Workers, i \in droppedAt :
    /\ pc[w] = "loop"
    /\ ret[w] = "reconnect"
    /\ pgsql[w] = "open"
    /\ dbUp
    /\ cur[w] = 0
    /\ i \notin written
    /\ votes = EmptyTable
    /\ queue = <<>>

\* C36 (Spec): every keep-alive probe runs a command that was created from
\* the connection pgsql refers to at that moment.
C36_ProbeOnCurrentConnection ==
  [][ \A w \in Workers :
        (pc[w] = "keepalive" /\ pc'[w] # "keepalive") => kaCurrent[w] ]_vars

\* C37 (SpecToken): from the pop that triggers a refresh on, each step of
\* that iteration keeps the record with the worker (inside OpenDbConnection
\* or UpdateVote) until the step that reaches the top of the loop, and that
\* step completes the record's write.
C37_RefreshKeepsRecord ==
  [][ \A w \in Workers :
        (ret[w] = "refresh" /\ cur[w] # 0 /\ StepOf(w)) =>
          IF pc'[w] = "loop"
          THEN cur[w] \in written'
          ELSE /\ pc'[w] \in {"db_connect", "db_create", "insert", "update"}
               /\ cur'[w] = cur[w]
               /\ vote'[w] = vote[w] ]_vars

\* C38 (Spec): every row of the table equals, in id and vote, a record
\* that was pushed by the intake, popped and written; the table changes
\* only in a step that completes an UpdateVote; and such a step is made by
\* a worker holding, as decoded, a popped record that has not been written
\* before.
C38_NoFabricatedVotes ==
  /\ [](\A r \in RowSpace :
          votes[r] > 0 =>
            \E i \in written : i <= nPop /\ enq[i] # Garbage /\ RowFor(enq[i]) = r)
  /\ [][ /\ votes' # votes => \E w \in Workers : WriteStep(w)
         /\ \A w \in Workers :
              WriteStep(w) =>
                /\ cur[w] \in 1..nPop
                /\ cur[w] \notin written
                /\ written' = written \cup {cur[w]}
                /\ vote[w] = enq[cur[w]] ]_vars

\* Two records of v1 were pushed, popped and written, a then b; the table
\* holds v1's row with b and nothing else, and a third record waits on the
\* queue.
C38_Witness ==
  /\ nPop = 2
  /\ written = {1, 2}
  /\ Len(enq) = 3
  /\ enq[1] = [vote |-> "a", voter_id |-> "v1"]
  /\ enq[2] = [vote |-> "b", voter_id |-> "v1"]
  /\ votes[[id |-> "v1", vote |-> "b"]] = 1
  /\ RowCount(votes) = 1
  /\ Len(queue) = 1

\* The tally holds a row of the voter of the i-th record pushed, written
\* from that record (or from a later one of that voter, which replaced it).
Tallied(i) == i \in written /\ CountOf(votes, enq[i].voter_id) > 0
\* A snapshot was built from a table holding such a row.
Reflected(i) == i \in snapped /\ CountOf(queried, enq[i].voter_id) > 0

\* C39 (SpecPipe): with queue and store reachable, static credentials and
\* worker and Aggregator scheduled, every record the intake has pushed is
\* eventually in the tally and eventually in a snapshot.
C39_EndToEndLiveness ==
  \A i \in 1..MaxEnq :
    /\ (Len(enq) >= i) ~> Tallied(i)
    /\ (Len(enq) >= i) ~> Reflected(i)

=============================================================================
